---- MODULE Spec2Model ----
(***************************************************************************)
(* EduCompanion backend (src/app.py): a Flask application over two MongoDB *)
(* collections, users and user_files, a signed-cookie session per client   *)
(* and a generative-AI model.                                              *)
(*                                                                         *)
(* Each client (one cookie jar) sends one request at a time; requests of   *)
(* different clients are served concurrently.  A handler is cut into steps *)
(* at its accesses to the shared collections: one step is the local code   *)
(* up to and including one database call.  Every database call and the    *)
(* call to the AI model may raise.                                         *)
(*                                                                         *)
(* A collection is the sequence of its documents in insertion order, which *)
(* is the order find_one and update_one scan it in; the code creates no    *)
(* index.  A document is a record of the fields it holds.  The wall clock  *)
(* is taken not to run backwards.                                          *)
(*                                                                         *)
(* Spec covers accounts and documents (register, login, logout,            *)
(* /api/user/file); SpecAll covers every endpoint with one account to      *)
(* register.                                                               *)
(***************************************************************************)
EXTENDS Integers, Sequences, FiniteSets, TLC

\* ---------------------------------------------------------------- bounds
MaxUsers == 2          \* records the users collection may hold
MaxFiles == 2          \* records the user_files collection may hold
MaxClock == 1          \* last reading of the wall clock

Sessions  == {"c1", "c2"}            \* clients, one session cookie each
Usernames == {"alice", "bob"}
Passwords == {"pw1", "pw2"}
\* the registrations tried: username, password, email
RegisterInputs == {<<"alice", "pw1", "a@x.com">>, <<"bob", "pw1", "a@x.com">>,
                   <<"bob", "pw1", "b@y.com">>}
\* the logins tried: username, password (bob only ever fails to log in)
LoginInputs == {<<"alice", "pw1">>, <<"alice", "pw2">>, <<"bob", "pw2">>}
Salts     == {"s1"}
Contents  == {"hi", "yo"}            \* contents posted to /api/user/file
Questions == {"", "q1"}              \* "" is the blank question
Progresses == {"p1"}

Anonymous == "Anonymous"             \* 'username' not in session
DefaultContent == "Welcome to EduCompanion!"
NoWrite == "no write yet"
NoPrompt == "no call"
Times == 0..MaxClock

VARIABLES
    users,        \* users_collection, in natural (insertion) order
    user_files,   \* user_files_collection, in natural (insertion) order
    session,      \* session[s]: session['username'] of client s, or Anonymous
    pc,           \* pc[s]: where the request of client s stands
    req,          \* req[s]: the locals of the request of client s
    response,     \* what the step just taken returned to its client, if anything
    now,          \* the last reading of pymongo.datetime.datetime.now()
    prompt,       \* what the step just taken called model.generate_content with
    lastWritten,  \* history: content of the last update_one on u's document
    lastReadTs    \* history: greatest updated_at a read of u's document returned

vars == <<users, user_files, session, pc, req, response, now, prompt,
          lastWritten, lastReadTs>>

\* ---------------------------------------------------------------- helpers
Idle == [op |-> "none"]
NoResponse == [kind |-> "none"]
\* jsonify({"success": ..., "message": ...}), status
Json(status, success, message) ==
    [kind |-> "json", status |-> status, success |-> success, message |-> message]
\* an exception that leaves the view function: no JSON payload is produced
Unhandled == [kind |-> "unhandled"]
DbError == "database error"
AiError == "upstream error"

\* bcrypt.hashpw(password, salt) / bcrypt.checkpw(password, hashed)
hashpw(password, salt) == <<"$2b$", salt, password>>
checkpw(password, hashed) == hashpw(password, hashed[2]) = hashed

\* collection.find_one({key: value}): index of the first match in natural
\* order, 0 when there is none
Matches(coll, key, value) == {i \in 1..Len(coll) : coll[i][key] = value}
FirstOf(S) == IF S = {} THEN 0 ELSE CHOOSE i \in S : \A j \in S : i <= j
find_one(coll, key, value) == FirstOf(Matches(coll, key, value))

\* record r with the fields of upd set ($set)
SetFields(r, upd) ==
    [k \in (DOMAIN r) \cup (DOMAIN upd) |-> IF k \in DOMAIN upd THEN upd[k] ELSE r[k]]

\* insert_one in the place of update_one
insert_always(coll, username, upd, upsert) ==
    Append(coll, SetFields([username |-> username], upd))

\* collection.update_one({"username": username}, {"$set": upd}, upsert=...)
update_one(coll, username, upd, upsert) ==
    LET i == find_one(coll, "username", username) IN
    IF i # 0 THEN [coll EXCEPT ![i] = SetFields(coll[i], upd)]
    ELSE IF upsert THEN Append(coll, SetFields([username |-> username], upd))
    ELSE coll

\* the document create_user_file inserts (lines 128-133)
user_file(username, created, updated) ==
    [username |-> username, content |-> DefaultContent,
     created_at |-> created, updated_at |-> updated]

Docs(u) == Matches(user_files, "username", u)
Records(u) == Matches(users, "username", u)

\* ---------------------------------------------------------------- Init
Init ==
    /\ users = <<>>
    /\ user_files = <<>>
    /\ session = [s \in Sessions |-> Anonymous]
    /\ pc = [s \in Sessions |-> "idle"]
    /\ req = [s \in Sessions |-> Idle]
    /\ response = NoResponse
    /\ now = 0
    /\ prompt = NoPrompt
    /\ lastWritten = [u \in Usernames |-> NoWrite]
    /\ lastReadTs = [u \in Usernames |-> 0]

\* the request of client s returns r
Return(s, r) ==
    /\ pc' = [pc EXCEPT ![s] = "idle"]
    /\ req' = [req EXCEPT ![s] = Idle]
    /\ response' = r
    /\ prompt' = NoPrompt

\* the request of client s goes on at label l with locals q
Goto(s, l, q) ==
    /\ pc' = [pc EXCEPT ![s] = l]
    /\ req' = [req EXCEPT ![s] = q]
    /\ response' = NoResponse
    /\ prompt' = NoPrompt

\* except Exception as e: return jsonify(success False, str(e)), 500
Caught(s, e) == Return(s, Json(500, FALSE, e))

\* datetime.now(): a reading of the wall clock, not before the last one
Now == {now, now + 1} \cap Times

\* ---------------------------------------------------------------- register
\* lines 46-55: read the request, find_one({"username": username})
register_find_username(s, username, password, email) ==
    /\ pc[s] = "idle"
    /\ \E ok \in BOOLEAN :
         IF ~ok THEN Caught(s, DbError)
         ELSE IF find_one(users, "username", username) # 0
              THEN Return(s, Json(400, FALSE, "Username already exists"))
              ELSE Goto(s, "register_find_email",
                        [op |-> "register", username |-> username,
                         password |-> password, email |-> email])
    /\ UNCHANGED <<users, user_files, session, now, lastWritten, lastReadTs>>

\* register_find_email without the check of line 57
register_find_email_unchecked(s) ==
    /\ pc[s] = "register_find_email"
    /\ \E ok \in BOOLEAN :
         IF ~ok THEN Caught(s, DbError)
         ELSE Goto(s, "register_insert", req[s])
    /\ UNCHANGED <<users, user_files, session, now, lastWritten, lastReadTs>>

\* lines 57-58: find_one({"email": email})
register_find_email(s) ==
    /\ pc[s] = "register_find_email"
    /\ \E ok \in BOOLEAN :
         IF ~ok THEN Caught(s, DbError)
         ELSE IF find_one(users, "email", req[s].email) # 0
              THEN Return(s, Json(400, FALSE, "Email already exists"))
              ELSE Goto(s, "register_insert", req[s])
    /\ UNCHANGED <<users, user_files, session, now, lastWritten, lastReadTs>>

\* lines 60-72: hash the password, insert_one(user)
register_insert(s) ==
    /\ pc[s] = "register_insert"
    /\ \E ok \in BOOLEAN :
         IF ~ok THEN Caught(s, DbError) /\ UNCHANGED users
         ELSE /\ Len(users) < MaxUsers
              /\ \E salt \in Salts :
                   users' = Append(users,
                       [username |-> req[s].username,
                        password |-> hashpw(req[s].password, salt),
                        email |-> req[s].email])
              /\ Goto(s, "create_user_file_find", req[s])
    /\ UNCHANGED <<user_files, session, now, lastWritten, lastReadTs>>

\* ---------------------------------------------------------------- create_user_file
\* an exception inside create_user_file: register and login catch it
\* (lines 79-80, 116-117), get_user_file has no handler
Raised(s) ==
    IF req[s].op \in {"register", "login"} THEN Caught(s, DbError)
    ELSE Return(s, Unhandled)

\* create_user_file has returned to its caller (lines 77, 104-112, 148)
AfterCreate(s) ==
    CASE req[s].op = "register" ->
           Return(s, Json(201, TRUE, "User registered successfully"))
      [] req[s].op = "login" ->
           Return(s, [kind |-> "json", status |-> 200, success |-> TRUE,
                      message |-> "Login successful",
                      user |-> [username |-> req[s].username,
                                email |-> req[s].email]])
      [] OTHER -> Goto(s, "get_user_file_reread", req[s])

\* line 127: find_one({"username": username})
create_user_file_find(s) ==
    /\ pc[s] = "create_user_file_find"
    /\ \E ok \in BOOLEAN :
         IF ~ok THEN Raised(s)
         ELSE IF find_one(user_files, "username", req[s].username) # 0
              THEN AfterCreate(s)
              ELSE Goto(s, "create_user_file_insert", req[s])
    /\ UNCHANGED <<users, user_files, session, now, lastWritten, lastReadTs>>

\* lines 128-135: build the document (two readings of the clock), insert_one
create_user_file_insert(s) ==
    /\ pc[s] = "create_user_file_insert"
    /\ \E ok \in BOOLEAN :
         IF ~ok THEN Raised(s) /\ UNCHANGED <<user_files, now>>
         ELSE /\ Len(user_files) < MaxFiles
              /\ \E t1 \in Now : \E t2 \in {t1, t1 + 1} \cap Times :
                   /\ user_files' = Append(user_files, user_file(req[s].username, t1, t2))
                   /\ now' = t2
              /\ AfterCreate(s)
    /\ UNCHANGED <<users, session, lastWritten, lastReadTs>>

\* ---------------------------------------------------------------- login, logout
\* login with lines 98-99 moved before the password check
login_session_first(s, username, password) ==
    /\ pc[s] = "idle"
    /\ \E ok \in BOOLEAN :
         LET i == find_one(users, "username", username) IN
         IF ~ok THEN Caught(s, DbError) /\ UNCHANGED session
         ELSE IF i = 0
              THEN /\ Return(s, Json(401, FALSE, "Invalid username or password"))
                   /\ UNCHANGED session
         ELSE /\ session' = [session EXCEPT ![s] = username]
              /\ IF checkpw(password, users[i].password)
                 THEN Goto(s, "create_user_file_find",
                           [op |-> "login", username |-> username,
                            email |-> users[i].email, cookie |-> session[s]])
                 ELSE Return(s, Json(401, FALSE, "Invalid username or password"))
    /\ UNCHANGED <<users, user_files, now, lastWritten, lastReadTs>>

\* lines 84-99, 113-114: find_one, checkpw, session['username'] = username;
\* cookie keeps the session the request came with
login(s, username, password) ==
    /\ pc[s] = "idle"
    /\ \E ok \in BOOLEAN :
         LET i == find_one(users, "username", username) IN
         IF ~ok THEN Caught(s, DbError) /\ UNCHANGED session
         ELSE IF i = 0
              THEN /\ Return(s, Json(401, FALSE, "Invalid username or password"))
                   /\ UNCHANGED session
         ELSE IF checkpw(password, users[i].password)
              THEN /\ session' = [session EXCEPT ![s] = username]
                   /\ Goto(s, "create_user_file_find",
                           [op |-> "login", username |-> username,
                            email |-> users[i].email, cookie |-> session[s]])
              ELSE /\ Return(s, Json(401, FALSE, "Invalid username or password"))
                   /\ UNCHANGED session
    /\ UNCHANGED <<users, user_files, now, lastWritten, lastReadTs>>

\* lines 119-122: session.clear()
logout(s) ==
    /\ pc[s] = "idle"
    /\ session' = [session EXCEPT ![s] = Anonymous]
    /\ Return(s, Json(200, TRUE, "Logged out successfully"))
    /\ UNCHANGED <<users, user_files, now, lastWritten, lastReadTs>>

NotLoggedIn(s) == Return(s, Json(401, FALSE, "Not logged in"))

\* ---------------------------------------------------------------- /api/user/file
\* lines 150-156: the payload of a read
FileResponse(doc) ==
    [kind |-> "json", status |-> 200, success |-> TRUE,
     file |-> [content |-> doc.content, updated_at |-> doc.updated_at]]

\* the read returns doc; the history keeps the greatest updated_at returned
ReturnFile(s, doc) ==
    /\ Return(s, FileResponse(doc))
    /\ lastReadTs' = [lastReadTs EXCEPT
                        ![doc.username] = IF doc.updated_at > @
                                          THEN doc.updated_at ELSE @]

\* lines 140-147: session check, find_one({"username": username})
get_user_file(s) ==
    /\ pc[s] = "idle"
    /\ IF session[s] = Anonymous THEN NotLoggedIn(s) /\ UNCHANGED lastReadTs
       ELSE \E ok \in BOOLEAN :
              LET i == find_one(user_files, "username", session[s]) IN
              IF ~ok THEN Return(s, Unhandled) /\ UNCHANGED lastReadTs
              ELSE IF i # 0 THEN ReturnFile(s, user_files[i])
              ELSE /\ Goto(s, "create_user_file_find",
                           [op |-> "get_user_file", username |-> session[s]])
                   /\ UNCHANGED lastReadTs
    /\ UNCHANGED <<users, user_files, session, now, lastWritten>>

\* lines 148-156: find_one again after create_user_file
get_user_file_reread(s) ==
    /\ pc[s] = "get_user_file_reread"
    /\ \E ok \in BOOLEAN :
         LET i == find_one(user_files, "username", req[s].username) IN
         IF ok /\ i # 0 THEN ReturnFile(s, user_files[i])
         ELSE Return(s, Unhandled) /\ UNCHANGED lastReadTs
    /\ UNCHANGED <<users, user_files, session, now, lastWritten>>

\* lines 160-178: session check, update_one(..., upsert=True)
update_user_file(s, content) ==
    /\ pc[s] = "idle"
    /\ IF session[s] = Anonymous
       THEN NotLoggedIn(s) /\ UNCHANGED <<user_files, now, lastWritten>>
       ELSE \E ok \in BOOLEAN :
              IF ~ok THEN /\ Return(s, Unhandled)
                          /\ UNCHANGED <<user_files, now, lastWritten>>
              ELSE /\ \E t \in Now :
                        /\ user_files' = update_one(user_files, session[s],
                               [content |-> content, updated_at |-> t], TRUE)
                        /\ now' = t
                   /\ Len(user_files') <= MaxFiles
                   /\ lastWritten' = [lastWritten EXCEPT ![session[s]] = content]
                   /\ Return(s, Json(200, TRUE, "File updated successfully"))
    /\ UNCHANGED <<users, session, lastReadTs>>

\* ---------------------------------------------------------------- /api/ask
\* ask_question with the session check of line 184 after the call of line 194
ask_question_late_check(s, question) ==
    /\ pc[s] = "idle"
    /\ pc' = [pc EXCEPT ![s] = "idle"]
    /\ req' = [req EXCEPT ![s] = Idle]
    /\ IF question = ""
       THEN /\ prompt' = NoPrompt
            /\ response' = IF session[s] = Anonymous
                            THEN Json(401, FALSE, "Not logged in")
                            ELSE Json(400, FALSE, "No question provided")
       ELSE /\ prompt' = question
            /\ \E ok \in BOOLEAN :
                 response' = IF session[s] = Anonymous
                             THEN Json(401, FALSE, "Not logged in")
                             ELSE IF ok THEN [kind |-> "json", status |-> 200,
                                              success |-> TRUE,
                                              answer |-> <<"answer to", question>>]
                             ELSE Json(500, FALSE, AiError)
    /\ UNCHANGED <<users, user_files, session, now, lastWritten, lastReadTs>>

\* lines 183-202
ask_question(s, question) ==
    /\ pc[s] = "idle"
    /\ IF session[s] = Anonymous THEN NotLoggedIn(s)
       ELSE IF question = ""
       THEN Return(s, Json(400, FALSE, "No question provided"))
       ELSE /\ pc' = [pc EXCEPT ![s] = "idle"]
            /\ req' = [req EXCEPT ![s] = Idle]
            /\ prompt' = question
            /\ \E ok \in BOOLEAN :
                 response' = IF ok THEN [kind |-> "json", status |-> 200,
                                         success |-> TRUE,
                                         answer |-> <<"answer to", question>>]
                             ELSE Json(500, FALSE, AiError)
    /\ UNCHANGED <<users, user_files, session, now, lastWritten, lastReadTs>>

\* ---------------------------------------------------------------- /api/user/progress
EmptyProgress == "{}"

\* lines 207-221
get_user_progress(s) ==
    /\ pc[s] = "idle"
    /\ IF session[s] = Anonymous THEN NotLoggedIn(s)
       ELSE \E ok \in BOOLEAN :
              LET i == find_one(users, "username", session[s]) IN
              IF ~ok THEN Return(s, Unhandled)
              ELSE IF i = 0 THEN Return(s, Json(404, FALSE, "User not found"))
              ELSE Return(s, [kind |-> "json", status |-> 200, success |-> TRUE,
                              progress |-> IF "progress" \in DOMAIN users[i]
                                           THEN users[i].progress
                                           ELSE EmptyProgress])
    /\ UNCHANGED <<users, user_files, session, now, lastWritten, lastReadTs>>

\* lines 225-237
update_user_progress(s, progress) ==
    /\ pc[s] = "idle"
    /\ IF session[s] = Anonymous THEN NotLoggedIn(s) /\ UNCHANGED users
       ELSE \E ok \in BOOLEAN :
              IF ~ok THEN Return(s, Unhandled) /\ UNCHANGED users
              ELSE /\ users' = update_one(users, session[s],
                                          [progress |-> progress], FALSE)
                   /\ Return(s, Json(200, TRUE, "Progress updated successfully"))
    /\ UNCHANGED <<user_files, session, now, lastWritten, lastReadTs>>

\* ---------------------------------------------------------------- Next
\* accounts and documents: registration, login, logout and /api/user/file
Next ==
    \/ \E s \in Sessions, r \in RegisterInputs :
         register_find_username(s, r[1], r[2], r[3])
    \/ \E s \in Sessions : register_find_email(s)
    \/ \E s \in Sessions : register_insert(s)
    \/ \E s \in Sessions : create_user_file_find(s)
    \/ \E s \in Sessions : create_user_file_insert(s)
    \/ \E s \in Sessions, l \in LoginInputs : login(s, l[1], l[2])
    \/ \E s \in Sessions : logout(s)
    \/ \E s \in Sessions : get_user_file(s)
    \/ \E s \in Sessions : get_user_file_reread(s)
    \/ \E s \in Sessions, c \in Contents : update_user_file(s, c)

Spec == Init /\ [][Next]_vars

\* every endpoint, with one account to register
NextAll ==
    \/ \E s \in Sessions, r \in {<<"alice", "pw1", "a@x.com">>} :
         register_find_username(s, r[1], r[2], r[3])
    \/ \E s \in Sessions : register_find_email(s)
    \/ \E s \in Sessions : register_insert(s)
    \/ \E s \in Sessions : create_user_file_find(s)
    \/ \E s \in Sessions : create_user_file_insert(s)
    \/ \E s \in Sessions, l \in LoginInputs : login(s, l[1], l[2])
    \/ \E s \in Sessions : logout(s)
    \/ \E s \in Sessions : get_user_file(s)
    \/ \E s \in Sessions : get_user_file_reread(s)
    \/ \E s \in Sessions, c \in Contents : update_user_file(s, c)
    \/ \E s \in Sessions, q \in Questions : ask_question(s, q)
    \/ \E s \in Sessions : get_user_progress(s)
    \/ \E s \in Sessions, p \in Progresses : update_user_progress(s, p)

SpecAll == Init /\ [][NextAll]_vars

\* ---------------------------------------------------------------- properties
\* Session Manager, CurrentUser(): the bound username, Anonymous when
\* there is none (NotAuthenticated)
CurrentUser(s) == session[s]

\* the record find_one returns for username u matches password p
GoodCredentials(u, p) ==
    /\ Records(u) # {}
    /\ checkpw(p, users[FirstOf(Records(u))].password)

\* the step is the last one of a request of client s that ran over several steps
Completes(s, op) == pc[s] # "idle" /\ req[s].op = op /\ pc'[s] = "idle"

DbFailure == Json(500, FALSE, DbError)

\* C1: no two User records share a username and no two share an email,
\* whatever the interleaving of the database steps of concurrent Register
\* requests.
C1_UniqueUsernameAndEmail ==
    \A i, j \in 1..Len(users) :
        i # j => /\ users[i].username # users[j].username
                 /\ users[i].email # users[j].email

\* C2: user_files holds at most one User Document per username in every
\* reachable state.
C2_AtMostOneDocument ==
    \A u \in Usernames : Cardinality(Docs(u)) <= 1

\* C3: a Register request that finds its username in users returns 400
\* "Username already exists" (before any look at the email); one that finds
\* its email in users returns 400 "Email already exists"; both end the
\* request with users and user_files as they were.  (A lookup that raises
\* ends the request with 500 instead, with the collections as they were.)
C3_DuplicateRejected ==
    [][\A s \in Sessions :
         /\ \A r \in RegisterInputs :
              (/\ register_find_username(s, r[1], r[2], r[3])
               /\ Records(r[1]) # {})
              => /\ response' \in {Json(400, FALSE, "Username already exists"),
                                   DbFailure}
                 /\ pc'[s] = "idle" /\ req'[s] = Idle
                 /\ users' = users /\ user_files' = user_files
         /\ (/\ register_find_email(s)
             /\ Matches(users, "email", req[s].email) # {})
            => /\ response' \in {Json(400, FALSE, "Email already exists"),
                                 DbFailure}
               /\ pc'[s] = "idle" /\ req'[s] = Idle
               /\ users' = users /\ user_files' = user_files
         /\ \A r \in RegisterInputs :
              (/\ register_find_username(s, r[1], r[2], r[3])
               /\ response' = Json(400, FALSE, "Username already exists"))
              => Records(r[1]) # {}
         /\ (/\ register_find_email(s)
             /\ response' = Json(400, FALSE, "Email already exists"))
            => Matches(users, "email", req[s].email) # {}
      ]_vars

C3_Witness ==
    /\ response = Json(400, FALSE, "Email already exists")
    /\ Len(users) = 1

\* C4 as claimed: a Login with correct credentials leaves the session
\* Authenticated(u); a Login with a wrong password or an unknown username
\* leaves CurrentUser() failing with NotAuthenticated, whatever the session
\* was before.
C4_FailedLoginNotAuthenticated ==
    [][\A s \in Sessions, u \in Usernames, p \in Passwords :
         (login(s, u, p) /\ response' # DbFailure)
         => IF GoodCredentials(u, p)
            THEN CurrentUser(s)' = u
            ELSE CurrentUser(s)' = Anonymous
      ]_vars

\* C4 amended: a Login with correct credentials leaves the session
\* Authenticated(u), and it stays so until the request returns; a Login with a
\* wrong password or an unknown username returns 401 and leaves the session as
\* it was: Anonymous stays Anonymous, Authenticated(v) stays Authenticated(v).
C4_FailedLoginKeepsSession ==
    [][\A s \in Sessions :
         /\ \A u \in Usernames, p \in Passwords :
              login(s, u, p)
              => IF response' = DbFailure
                 THEN CurrentUser(s)' = CurrentUser(s)
                 ELSE IF GoodCredentials(u, p)
                 THEN CurrentUser(s)' = u /\ pc'[s] # "idle"
                 ELSE /\ CurrentUser(s)' = CurrentUser(s)
                      /\ response' = Json(401, FALSE, "Invalid username or password")
         /\ (pc[s] # "idle" /\ req[s].op = "login")
            => CurrentUser(s)' = req[s].username
      ]_vars

C4_Witness ==
    /\ response = Json(401, FALSE, "Invalid username or password")
    /\ \A s \in Sessions : CurrentUser(s) # Anonymous

\* C5: a request to a session-gated endpoint made while the session is
\* Anonymous returns 401 and changes neither users, user_files nor the
\* session, and does not call the AI model.
C5_AnonymousRejected ==
    [][\A s \in Sessions :
         (/\ session[s] = Anonymous
          /\ \/ get_user_file(s)
             \/ \E c \in Contents : update_user_file(s, c)
             \/ get_user_progress(s)
             \/ \E p \in Progresses : update_user_progress(s, p)
             \/ \E q \in Questions : ask_question(s, q))
         => /\ response' = Json(401, FALSE, "Not logged in")
            /\ users' = users /\ user_files' = user_files
            /\ session' = session
            /\ prompt' = NoPrompt
      ]_vars

C5_Witness ==
    /\ response = Json(401, FALSE, "Not logged in")
    /\ Len(users) > 0
    /\ Len(user_files) > 0

\* the step is a read of /api/user/file by client s that returns the file
Reads(s) ==
    /\ get_user_file(s) \/ get_user_file_reread(s)
    /\ response'.kind = "json"
    /\ response'.status = 200

C7_OneRecordOneDocument ==
    [][\A s \in Sessions :
         /\ (Completes(s, "register") /\ response'.status = 201)
            => LET u == req[s].username
                   d == Matches(user_files', "username", u)
               IN /\ Cardinality(Matches(users', "username", u)) = 1
                  /\ Cardinality(d) = 1
                  /\ \A i \in d : user_files'[i].content = DefaultContent
         /\ (Completes(s, "login") /\ response'.status = 200)
            => Cardinality(Matches(user_files', "username", req[s].username)) = 1
      ]_vars

\* C8: whatever fails during a request, the handler returns a JSON payload
\* with success = false, a message and a status: no exception leaves a
\* handler.
C8_NoUnhandledException ==
    response.kind \in {"none", "json"}

\* C9: the session changes only by a successful Login (to the username
\* logged in) and by Logout (to Anonymous, with status 200); a Login that
\* returns a failure leaves the session as the request found it.
C9_SessionStateMachine ==
    [][\A s \in Sessions :
         /\ session'[s] # session[s]
            => \/ logout(s)
               \/ \E u \in Usernames, p \in Passwords :
                    login(s, u, p) /\ GoodCredentials(u, p) /\ session'[s] = u
         /\ logout(s)
            => /\ session'[s] = Anonymous
               /\ response' = Json(200, TRUE, "Logged out successfully")
         /\ (Completes(s, "login") /\ ~response'.success)
            => session'[s] = req[s].cookie
      ]_vars

\* EnsureExists(username) followed by the overwrite of the content
EnsureThenOverwrite(files, u, c, t1, t2, t3) ==
    update_one(IF Matches(files, "username", u) = {}
               THEN Append(files, user_file(u, t1, t2)) ELSE files,
               u, [content |-> c, updated_at |-> t3], FALSE)

\* C10: POST /api/user/file leaves user_files as EnsureExists followed by an
\* overwrite of the content would: a document with username, content = c,
\* created_at and updated_at when there was none; only content and updated_at
\* changed when there was one.
C10_UpsertIsEnsureThenOverwrite ==
    [][\A s \in Sessions, c \in Contents :
         (/\ session[s] # Anonymous
          /\ update_user_file(s, c)
          /\ response' = Json(200, TRUE, "File updated successfully"))
         => \E t1, t2, t3 \in Times :
              user_files' = EnsureThenOverwrite(user_files, session[s], c, t1, t2, t3)
      ]_vars

====
